---- MODULE Spec2Model ----
(***************************************************************************)
(* The PVOutput uploader of the IoTaWatt firmware                           *)
(* (Firmware/IotaWatt/pvoutput.cpp): pvoutputConfig, which installs a      *)
(* configuration document, and pvoutputService, the cooperative service    *)
(* whose tick is a six-state machine (initialize, queryLastPostTime,       *)
(* queryLastPostTimeWait, post, sendPost, waitPost).                        *)
(*                                                                         *)
(* Times are UNIX seconds.  The values an entry carries (energy, power,    *)
(* voltage) are abstracted to the printed width of the entry; the          *)
(* day-start record of the post state only feeds those values.  The        *)
(* statics lastRequestTime, lastBufferTime and reqUnixtime are written and *)
(* never read, and are left out.  What a tick reads from the platform      *)
(* (WiFi.isConnected(), ESP.getFreeHeap(), the response of a completed     *)
(* request) is an input of the tick.                                       *)
(***************************************************************************)
EXTENDS Integers, Sequences, FiniteSets, TLC

\* ------------------------------------------------------------------------
\* Program constants
\* ------------------------------------------------------------------------
MAX_BULK_SEND == 30
reqDataLimit == 4000
MAX_PAST_POST_TIME == 13 * 24 * 60 * 60
MinFreeHeap == 15000
pvoutputBulkSend == 1
\* length of PVOUTPUT_POST_DATA_PREFIX, "c1=0&n=0&data="
PrefixLen == 14
\* shortest entry "YYYYMMDD,HH:MM,0.00,0.00,0.00,0.00,,0.00"
MinEntryLen == 40

\* ------------------------------------------------------------------------
\* Bounds of the model
\* ------------------------------------------------------------------------
\* the clock advances in steps of ClockStep seconds, MaxClockSteps times
MaxClockSteps == 1
\* number of whole report periods already in the log of the catch-up start
BulkPeriods == 100
\* number of slots of the shared counter HTTPrequestFree when the firmware
\* starts
HTTPrequestMax == 2

ClockStep == 5 * 60
\* a multiple of every report interval, later than MAX_PAST_POST_TIME
T0 == MAX_PAST_POST_TIME + 1200
MaxNow == T0 + MaxClockSteps * ClockStep

Intervals == {300, 600}
Revisions == {1, 2}
SystemIds == {54871}
\* the configuration documents pvoutputConfig is called with
Configs ==
  [revision : Revisions, stop : BOOLEAN, reportInterval : Intervals,
   systemId : SystemIds]

\* ------------------------------------------------------------------------
\* State
\* ------------------------------------------------------------------------
VARIABLES
  pvoutputStarted, pvoutputStop, pvoutputRestart, pvoutputConfigRevision,
  pvoutputReportInterval, pvoutputSystemId,
  state, oldRecord, logRecord,
  UnixNextPost, reqData, reqEntries, retryCount, request,
  HTTPrequestFree, otherHeld,
  serviceBlocks, callTime,
  now, currLog, logOpen,
  inFlight, lastRevision,
  sessionInit, sentBody, configResult,
  feedState, startUnixTime, endUnixTime, intervalSeconds, UnixTime,
  serverAvailable, feedBlocks, iterations, returned0

cfgVars == <<pvoutputStarted, pvoutputStop, pvoutputRestart,
             pvoutputConfigRevision, pvoutputReportInterval, pvoutputSystemId>>
svcVars == <<state, oldRecord, logRecord,
             UnixNextPost, reqData, reqEntries, retryCount, request>>
envVars == <<now, currLog, logOpen>>
\* history: the post times were set from a getstatus reply since the last
\* (re)start; the body of the addbatchstatus attempt that is to be repeated;
\* what the last pvoutputConfig call returned
histVars == <<sessionInit, sentBody, configResult>>
\* getFeedData: its statics, the web server's serverAvailable, the service
\* block of getFeedData, the number of passes of its process loop in the
\* current request, and (history) what the ticks that returned 0 handed back
gfdVars == <<feedState, startUnixTime, endUnixTime, intervalSeconds, UnixTime,
             serverAvailable, feedBlocks, iterations, returned0>>
vars == <<cfgVars, svcVars, HTTPrequestFree, otherHeld, serviceBlocks,
          callTime, envVars, inFlight, lastRevision, histVars, gfdVars>>

\* a null IotaLogRecord pointer
NullRecord == [UNIXtime |-> -1, logHours |-> -1]
\* a null asyncHTTPrequest pointer
NullRequest == [readyState |-> -1]
\* a freshly created request after send(): readyState 1 when the send was
\* accepted, 0 when send() failed
NewRequest(sendOK) ==
  [readyState |-> IF sendOK THEN 1 ELSE 0]

\* xbuf reqData: number of bytes and the post times of the entries in it
EmptyBuf == [len |-> 0, times |-> <<>>]
PrefixBuf == [len |-> PrefixLen, times |-> <<>>]
\* no addbatchstatus attempt is to be repeated
NoBody == [len |-> -1, times |-> <<>>]

\* ------------------------------------------------------------------------
\* The log
\* ------------------------------------------------------------------------
firstKey == currLog[1].UNIXtime
lastKey == currLog[Len(currLog)].UNIXtime

\* logReadKey: the record with the greatest key at or before t (the oldest
\* record when t precedes every key); the requested key stays in the record
logReadKey(t) ==
  LET idx == {i \in 1..Len(currLog) : currLog[i].UNIXtime <= t}
      i == IF idx = {} THEN 1
           ELSE CHOOSE j \in idx : \A k \in idx : k <= j
  IN [UNIXtime |-> t, logHours |-> currLog[i].logHours]

\* ------------------------------------------------------------------------
\* Replies of the remote
\* ------------------------------------------------------------------------
\* the times a getstatus reply can carry: 1970 (no status), the first and
\* the last key of the log, and the time of the next clock step
StatusTimes == {0, firstKey, lastKey, now + ClockStep}

\* a completed request: HTTP code and response text.  kind "status" is a
\* well-formed "YYYYMMDD,HH:MM,..." line for time t, the other kinds are the
\* documented error phrases, "garbage" is any other text
Replies ==
  {[code |-> 200, kind |-> "status", t |-> t] : t \in StatusTimes}
    \cup {[code |-> 200, kind |-> "garbage", t |-> 0]}
    \cup {[code |-> 400, kind |-> k, t |-> 0] :
            k \in {"Date is older than", "Date is in the future", "Moon powered",
                   "No status found", "Invalid future date"}}
    \cup {[code |-> 403, kind |-> k, t |-> 0] :
            k \in {"Exceeded 60 requests per hour", "garbage"}}
    \cup {[code |-> -4, kind |-> "garbage", t |-> 0]}

\* no phrase asks for a later retry
InterpretAddBatchStatusError_NoRetry(responseCode, responseText) ==
  IF responseCode = 400 /\ responseText = "Date is older than"
    THEN "SKIP" ELSE "RESET"

\* InterpretAddBatchStatusError
InterpretAddBatchStatusError(responseCode, responseText) ==
  IF responseCode = 400
    THEN IF responseText = "Date is older than" THEN "SKIP"
         ELSE IF responseText = "Date is in the future" THEN "RETRY_PERIOD"
         ELSE "RESET"
  ELSE IF responseCode = 403
    THEN IF responseText = "Exceeded 60 requests per hour" THEN "RETRY_PERIOD"
         ELSE "RESET"
  ELSE "RESET"

\* the ParseFixedInteger / ParseExpectedCharacter chain over the response
\* text: TRUE when "YYYYMMDD,HH:MM," was parsed
ParsedDateTime(kind) == kind = "status"

\* ------------------------------------------------------------------------
\* pvoutputConfig
\* ------------------------------------------------------------------------
\* NewService(pvoutputService): one more service block, to be called at once
NewService ==
  /\ serviceBlocks' = serviceBlocks + 1
  /\ callTime' = 1

pvoutputConfig(config) ==
  /\ lastRevision' = {config.revision}
  /\ IF config.revision = pvoutputConfigRevision
       THEN UNCHANGED <<cfgVars, serviceBlocks, callTime>>
       ELSE /\ pvoutputConfigRevision' = config.revision
            /\ pvoutputStop' = config.stop
            /\ pvoutputRestart' =
                 IF ~config.stop /\ pvoutputStarted THEN TRUE ELSE pvoutputRestart
            /\ pvoutputSystemId' = config.systemId
            /\ pvoutputReportInterval' = config.reportInterval
            /\ IF ~pvoutputStarted
                 THEN NewService
                 ELSE UNCHANGED <<serviceBlocks, callTime>>
            /\ pvoutputStarted' = TRUE
  /\ configResult' = TRUE
  /\ UNCHANGED <<svcVars, HTTPrequestFree, otherHeld, envVars, inFlight,
                 sessionInit, sentBody>>
  /\ UNCHANGED gfdVars

Config == \E config \in Configs : pvoutputConfig(config)

\* ------------------------------------------------------------------------
\* pvoutputService
\* ------------------------------------------------------------------------
\* the scheduler calls the service at or after the time its last tick returned
Scheduled == serviceBlocks > 0 /\ callTime <= now

\* the restart request overlooked: the switch sees the state as it was left
entryState_NoRestart == state

\* the state the switch sees: a pending restart sets it to initialize first
entryState == IF pvoutputRestart THEN "initialize" ELSE state

\* a return of 0 taken for a call time: the service block stays
Return_BlockKept(v) ==
  /\ callTime' = v
  /\ serviceBlocks' = serviceBlocks

\* return v: 0 deletes the service block, any other value is the next call time
Return(v) ==
  /\ callTime' = v
  /\ serviceBlocks' = IF v = 0 THEN serviceBlocks - 1 ELSE serviceBlocks

\* "delete request" forgotten: the transaction in progress goes on
AbortedByDelete_None(req) == 0

\* the number of HTTP transactions in progress that deleting req aborts
AbortedByDelete(req) == IF req.readyState = 1 THEN 1 ELSE 0

\* the pointer kept after the response was read
DeletedRequest_Kept(req) == req

\* delete request; request = nullptr
DeletedRequest(req) == NullRequest

\* the number of HTTP transactions a send() starts
StartedBySend(sendOK) == IF sendOK THEN 1 ELSE 0

ServiceInitialize ==
  /\ Scheduled
  /\ entryState = "initialize"
  /\ pvoutputRestart' = FALSE
  /\ IF ~logOpen
       THEN state' = "initialize" /\ Return(now + 5)
       ELSE state' = "queryLastPostTime" /\ Return(1)
  /\ UNCHANGED <<pvoutputStarted, pvoutputStop, pvoutputConfigRevision,
                 pvoutputReportInterval, pvoutputSystemId,
                 oldRecord, logRecord,
                 UnixNextPost, reqData, reqEntries, retryCount, request,
                 HTTPrequestFree, otherHeld, envVars, inFlight, lastRevision,
                 configResult>>
  /\ sessionInit' = FALSE
  /\ sentBody' = NoBody
  /\ UNCHANGED gfdVars

\* what ESP.getFreeHeap() can answer: below the threshold or not
FreeHeaps == {MinFreeHeap - 1, MinFreeHeap}

\* the queryLastPostTime case on a platform whose WiFi is connected or not
\* and whose free heap is freeHeap (which the case does not read)
QueryLastPostTimeTick(wifi, freeHeap, sendOK) ==
  /\ Scheduled
  /\ entryState = "queryLastPostTime"
  /\ pvoutputRestart' = FALSE
  /\ IF ~wifi \/ HTTPrequestFree = 0
       THEN /\ Return(now + 1)
            /\ UNCHANGED <<state, request, reqData, HTTPrequestFree, inFlight,
                           sentBody>>
       ELSE /\ HTTPrequestFree' = HTTPrequestFree - 1
            /\ sentBody' = NoBody
            /\ request' = NewRequest(sendOK)
            /\ inFlight' = inFlight - AbortedByDelete(request)
                             + StartedBySend(sendOK)
            /\ reqData' = EmptyBuf
            /\ state' = "queryLastPostTimeWait"
            /\ Return(1)
  /\ UNCHANGED <<pvoutputStarted, pvoutputStop, pvoutputConfigRevision,
                 pvoutputReportInterval, pvoutputSystemId,
                 oldRecord, logRecord,
                 UnixNextPost, reqEntries, retryCount,
                 otherHeld, envVars, lastRevision, sessionInit, configResult>>
  /\ UNCHANGED gfdVars

ServiceQueryLastPostTime ==
  \E wifi \in BOOLEAN, freeHeap \in FreeHeaps, sendOK \in BOOLEAN :
    QueryLastPostTimeTick(wifi, freeHeap, sendOK)

\* the time of the reply not adjusted to a report boundary
LastPostFromReply_Unadjusted(t) ==
  LET t1 == IF t = 0 THEN now ELSE t
  IN IF t1 + MAX_PAST_POST_TIME < now THEN now - MAX_PAST_POST_TIME ELSE t1

\* the UTC time of the parsed reply, as the post state will use it:
\* 0 means now, nothing older than MAX_PAST_POST_TIME, on a report boundary
LastPostFromReply(t) ==
  LET t1 == IF t = 0 THEN now ELSE t
      t2 == IF t1 + MAX_PAST_POST_TIME < now THEN now - MAX_PAST_POST_TIME ELSE t1
  IN t2 - (t2 % pvoutputReportInterval)

\* the report interval not added
FirstNextPost_NoAdvance(rec) ==
  rec.UNIXtime - (rec.UNIXtime % pvoutputReportInterval)

\* the first post time after the record the reply names
FirstNextPost(rec) ==
  rec.UNIXtime + pvoutputReportInterval - (rec.UNIXtime % pvoutputReportInterval)

\* "pvoutputLastPost % pvoutputReportInterval" with a report interval of 0:
\* the integer division routine of the target raises an exception, the tick
\* does not return and the state machine is where no case of the switch is
NoReturn == "exception"

\* queryLastPostTimeWait while the request has not completed
QueryLastPostTimePending ==
  /\ Scheduled
  /\ entryState = "queryLastPostTimeWait"
  /\ pvoutputRestart' = FALSE
  /\ request.readyState /= 4
  /\ Return(1)
  /\ UNCHANGED <<pvoutputStop, state, oldRecord, UnixNextPost, reqData,
                 reqEntries, request, HTTPrequestFree, sessionInit>>
  /\ UNCHANGED <<pvoutputStarted, pvoutputConfigRevision,
                 pvoutputReportInterval, pvoutputSystemId,
                 logRecord, retryCount,
                 otherHeld, envVars, inFlight, lastRevision, sentBody,
                 configResult>>
  /\ UNCHANGED gfdVars

\* queryLastPostTimeWait with the completed request answered by reply
QueryLastPostTimeReply(reply) ==
  /\ Scheduled
  /\ entryState = "queryLastPostTimeWait"
  /\ pvoutputRestart' = FALSE
  /\ request.readyState = 4
  /\ HTTPrequestFree' = HTTPrequestFree + 1
  /\ request' = DeletedRequest(request)
  /\ LET op == InterpretAddBatchStatusError(reply.code, reply.kind)
     IN IF reply.code /= 200 /\ op = "RETRY_PERIOD"
          THEN /\ state' = "queryLastPostTime"
               /\ Return(now + 5)
               /\ UNCHANGED <<pvoutputStop, oldRecord, UnixNextPost,
                              reqData, reqEntries, sessionInit>>
        ELSE IF reply.code /= 200 /\ op /= "SKIP"
          THEN /\ state' = "queryLastPostTime"
               /\ Return(now + 1)
               /\ UNCHANGED <<pvoutputStop, oldRecord, UnixNextPost,
                              reqData, reqEntries, sessionInit>>
        ELSE IF ~ParsedDateTime(reply.kind)
          THEN /\ pvoutputStop' = TRUE
               /\ state' = "post"
               /\ Return(1)
               /\ UNCHANGED <<oldRecord, UnixNextPost, reqData, reqEntries,
                              sessionInit>>
        ELSE IF pvoutputReportInterval = 0
          THEN /\ state' = NoReturn
               /\ UNCHANGED <<pvoutputStop, oldRecord, UnixNextPost, reqData,
                              reqEntries, sessionInit, serviceBlocks,
                              callTime>>
        ELSE /\ oldRecord' = logReadKey(LastPostFromReply(reply.t))
             /\ sessionInit' = TRUE
             /\ UnixNextPost' = FirstNextPost(oldRecord')
             /\ reqData' = PrefixBuf
             /\ reqEntries' = 0
             /\ state' = "post"
             /\ Return(UnixNextPost')
             /\ UNCHANGED pvoutputStop
  /\ UNCHANGED <<pvoutputStarted, pvoutputConfigRevision,
                 pvoutputReportInterval, pvoutputSystemId,
                 logRecord, retryCount,
                 otherHeld, envVars, inFlight, lastRevision, sentBody,
                 configResult>>
  /\ UNCHANGED gfdVars

ServiceQueryLastPostTimeWait ==
  \/ QueryLastPostTimePending
  \/ \E reply \in Replies : QueryLastPostTimeReply(reply)

\* the printed width of the entry built from rec, "YYYYMMDD,HH:MM," and five
\* numbers of two decimals: the shortest entry, one character more for the
\* records whose values reach 10.00
EntryLen(rec) == MinEntryLen + (rec.logHours % 2)

\* pvoutputSendData: the entry for unixTime, of printed width w, is written
\* to reqData after a ';' when the buffer holds more than the prefix
pvoutputSendData(buf, unixTime, w) ==
  [len |-> buf.len + (IF buf.len > PrefixLen THEN 1 ELSE 0) + w,
   times |-> Append(buf.times, unixTime)]

\* the post time rounded down to twice the report interval
PVOutputBuildPost_WrongModulus(buf, rec) ==
  pvoutputSendData(buf,
    rec.UNIXtime - (rec.UNIXtime % (2 * pvoutputReportInterval)), EntryLen(rec))

\* PVOutputBuildPost: the post time is the record time on a report boundary
PVOutputBuildPost(buf, rec) ==
  pvoutputSendData(buf,
    rec.UNIXtime - (rec.UNIXtime % pvoutputReportInterval), EntryLen(rec))

\* the next post time after an entry for next has been added
NextAfterEntry(next) ==
  next + pvoutputReportInterval - (next % pvoutputReportInterval)

\* the next post time left where it was
NextAfterSkip_Stays(next) == next

\* the next post time after an empty period
NextAfterSkip(next) == next + pvoutputReportInterval

\* hours the local time is ahead of UTC
localTimeDiff == 0

\* t is 00:00:00 local time
LocalMidnight(t) == (t + localTimeDiff * 3600) % 86400 = 0

\* the post state adds another measurement
BufferNotFull == reqData.len < reqDataLimit /\ UnixNextPost <= lastKey

\* the post state hands the buffer to sendPost
ReadyToSend(entries, next, len) ==
  /\ (request = NullRequest \/ request.readyState = 4) /\ HTTPrequestFree > 0
  /\ \/ entries >= MAX_BULK_SEND
     \/ (entries >= pvoutputBulkSend /\ next >= now)
     \/ len >= reqDataLimit

\* the end of the post state: to sendPost, or wait until the next post time
PostDecision(entries, next, len) ==
  IF ReadyToSend(entries, next, len)
    THEN state' = "sendPost" /\ Return(1)
    ELSE state' = "post" /\ Return(next)

\* the stop leaves the entry count as it was
StoppedEntries_Kept(entries) == entries

\* reqEntries = 0 in the stop path
StoppedEntries(entries) == 0

ServicePost ==
  /\ Scheduled
  /\ entryState = "post"
  /\ pvoutputRestart' = FALSE
  /\ IF pvoutputStop
       THEN IF request /= NullRequest /\ request.readyState < 4
              THEN /\ Return(1)
                   /\ UNCHANGED <<pvoutputStarted, pvoutputConfigRevision, svcVars,
                                  inFlight, sessionInit, sentBody>>
              ELSE /\ pvoutputStarted' = FALSE
                   /\ sessionInit' = FALSE
                   /\ sentBody' = NoBody
                   /\ state' = "initialize"
                   /\ oldRecord' = NullRecord
                   /\ logRecord' = NullRecord
                   /\ request' = DeletedRequest(request)
                   /\ inFlight' = inFlight - AbortedByDelete(request)
                   /\ reqData' = EmptyBuf
                   /\ reqEntries' = StoppedEntries(reqEntries)
                   /\ pvoutputConfigRevision' = -1
                   /\ Return(0)
                   /\ UNCHANGED <<UnixNextPost, retryCount>>
     ELSE IF /\ request /= NullRequest /\ request.readyState < 4
             /\ reqData.len > reqDataLimit
       THEN /\ Return(1)
            /\ UNCHANGED <<pvoutputStarted, pvoutputConfigRevision, svcVars, inFlight,
                           sessionInit, sentBody>>
     ELSE /\ IF BufferNotFull
               THEN LET rec == logReadKey(UnixNextPost)
                    IN IF rec.logHours - oldRecord.logHours = 0
                         THEN /\ logRecord' = rec
                              /\ UnixNextPost' = NextAfterSkip(UnixNextPost)
                              /\ Return(UnixNextPost')
                              /\ UNCHANGED <<state, oldRecord, reqData,
                                             reqEntries>>
                         ELSE   /\ reqData' = PVOutputBuildPost(reqData, rec)
                                /\ oldRecord' = rec
                                /\ logRecord' = NullRecord
                                /\ reqEntries' = reqEntries + 1
                                /\ UnixNextPost' = NextAfterEntry(UnixNextPost)
                                /\ PostDecision(reqEntries', UnixNextPost',
                                                reqData'.len)
               ELSE /\ PostDecision(reqEntries, UnixNextPost, reqData.len)
                    /\ UNCHANGED <<oldRecord, logRecord, UnixNextPost, reqData,
                                   reqEntries>>
          /\ UNCHANGED <<pvoutputStarted, pvoutputConfigRevision,
                         retryCount, request, inFlight, sessionInit, sentBody>>
  /\ UNCHANGED <<pvoutputStop, pvoutputReportInterval, pvoutputSystemId,
                 HTTPrequestFree, otherHeld, envVars, lastRevision, configResult>>
  /\ UNCHANGED gfdVars

\* request->send(&reqData, reqData.available()): a send that takes the body
\* reads it out of the buffer, a send that fails before that leaves it there
BufferAfterSend(buf, taken) == IF taken THEN EmptyBuf ELSE buf

\* ESP.getFreeHeap() < 15000
HeapTooLow(freeHeap) == freeHeap < MinFreeHeap

\* the sendPost case on a platform whose WiFi is connected or not and whose
\* free heap is freeHeap
SendPostTick(wifi, freeHeap, sendOK, taken) ==
  /\ Scheduled
  /\ entryState = "sendPost"
  /\ pvoutputRestart' = FALSE
  /\ IF ~wifi \/ HeapTooLow(freeHeap)
       THEN /\ Return(now + 1)
            /\ UNCHANGED <<state, request, reqData, reqEntries,
                           HTTPrequestFree, inFlight, sentBody>>
     ELSE IF HTTPrequestFree = 0
       THEN /\ Return(1)
            /\ UNCHANGED <<state, request, reqData, reqEntries,
                           HTTPrequestFree, inFlight, sentBody>>
     ELSE /\ HTTPrequestFree' = HTTPrequestFree - 1
          /\ sentBody' = reqData
          /\ request' = NewRequest(sendOK)
          /\ inFlight' = inFlight + StartedBySend(sendOK)
          /\ reqData' = BufferAfterSend(reqData, taken)
          /\ reqEntries' = 0
          /\ state' = "waitPost"
          /\ Return(1)
  /\ UNCHANGED <<pvoutputStarted, pvoutputStop, pvoutputConfigRevision,
                 pvoutputReportInterval, pvoutputSystemId,
                 oldRecord, logRecord, UnixNextPost, retryCount,
                 otherHeld, envVars, lastRevision, sessionInit, configResult>>
  /\ UNCHANGED gfdVars

ServiceSendPost ==
  \E wifi \in BOOLEAN, freeHeap \in FreeHeaps,
     sendOK \in BOOLEAN, taken \in BOOLEAN :
    SendPostTick(wifi, freeHeap, sendOK, taken)

\* every retry is answered by a reset
RetryBudgetSpent_Always(count) == TRUE

\* the retries of one POST are used up
RetryBudgetSpent(count) == count >= 10

\* the buffer left as the send left it
BufferAfterReply_Kept(buf) == buf

\* reqData.flush(); reqData.write(PVOUTPUT_POST_DATA_PREFIX)
BufferAfterReply(buf) == PrefixBuf

\* the waitPost case for a completed request with the response reply
WaitPostReply(reply) ==
  /\ Scheduled
  /\ entryState = "waitPost"
  /\ pvoutputRestart' = FALSE
  /\ request /= NullRequest /\ request.readyState = 4
  /\ HTTPrequestFree' = HTTPrequestFree + 1
  /\ request' = DeletedRequest(request)
  /\ LET op0 == InterpretAddBatchStatusError(reply.code, reply.kind)
         op == IF op0 \in {"RETRY_NOW", "RETRY_PERIOD"}
                    /\ RetryBudgetSpent(retryCount)
                 THEN "RESET" ELSE op0
     IN IF reply.code /= 200 /\ op = "RETRY_NOW"
          THEN /\ state' = "sendPost"
               /\ Return(now + 1)
               /\ UNCHANGED <<retryCount, reqData, reqEntries, sentBody>>
        ELSE IF reply.code /= 200 /\ op = "RETRY_PERIOD"
          THEN /\ state' = "sendPost"
               /\ Return(now + pvoutputReportInterval)
               /\ UNCHANGED <<retryCount, reqData, reqEntries, sentBody>>
        ELSE IF reply.code /= 200 /\ op /= "SKIP"
          THEN /\ state' = "queryLastPostTime"
               /\ Return(1)
               /\ sentBody' = NoBody
               /\ UNCHANGED <<retryCount, reqData, reqEntries>>
        ELSE /\ retryCount' = 0
             /\ state' = "post"
             /\ reqData' = BufferAfterReply(reqData)
             /\ reqEntries' = 0
             /\ sentBody' = NoBody
             /\ Return(1)
  /\ UNCHANGED <<pvoutputStarted, pvoutputStop, pvoutputConfigRevision,
                 pvoutputReportInterval, pvoutputSystemId,
                 oldRecord, logRecord,
                 UnixNextPost, otherHeld, envVars, inFlight, lastRevision,
                 sessionInit, configResult>>
  /\ UNCHANGED gfdVars

\* the waitPost case while the request is not completed
WaitPostPending ==
  /\ Scheduled
  /\ entryState = "waitPost"
  /\ pvoutputRestart' = FALSE
  /\ ~(request /= NullRequest /\ request.readyState = 4)
  /\ Return(1)
  /\ UNCHANGED <<pvoutputStarted, pvoutputStop, pvoutputConfigRevision,
                 pvoutputReportInterval, pvoutputSystemId, svcVars,
                 HTTPrequestFree, otherHeld, envVars, inFlight, lastRevision,
                 histVars>>
  /\ UNCHANGED gfdVars

ServiceWaitPost ==
  \/ WaitPostPending
  \/ \E reply \in Replies : WaitPostReply(reply)

\* ------------------------------------------------------------------------
\* The environment
\* ------------------------------------------------------------------------
\* UNIXtime() advances
AdvanceClock ==
  /\ now < MaxNow
  /\ now' = now + ClockStep
  /\ UNCHANGED <<cfgVars, svcVars, HTTPrequestFree, otherHeld, serviceBlocks,
                 callTime, currLog, logOpen, inFlight, lastRevision,
                 histVars>>
  /\ UNCHANGED gfdVars

\* the data log service opens the log; it stays open
LogOpens ==
  /\ ~logOpen
  /\ logOpen' = TRUE
  /\ UNCHANGED <<cfgVars, svcVars, HTTPrequestFree, otherHeld, serviceBlocks,
                 callTime, now, currLog, inFlight, lastRevision,
                 histVars>>
  /\ UNCHANGED gfdVars

\* the data log service writes the record of a later key; the keys between
\* the last one and the new one stay missing when the device was not running
LogAppend ==
  /\ logOpen
  /\ lastKey < now
  /\ \E key \in {lastKey + ClockStep, now} :
       currLog' = Append(currLog,
                    [UNIXtime |-> key,
                     logHours |-> currLog[Len(currLog)].logHours + 1])
  /\ UNCHANGED <<cfgVars, svcVars, HTTPrequestFree, otherHeld, serviceBlocks,
                 callTime, now, logOpen, inFlight, lastRevision,
                 histVars>>
  /\ UNCHANGED gfdVars

\* the request in progress completes (reply, error or timeout)
RequestCompletes ==
  /\ request.readyState = 1
  /\ request' = [readyState |-> 4]
  /\ inFlight' = inFlight - 1
  /\ UNCHANGED <<cfgVars, state, oldRecord, logRecord,
                 UnixNextPost, reqData, reqEntries, retryCount,
                 HTTPrequestFree, otherHeld, serviceBlocks, callTime, envVars,
                 lastRevision, histVars>>
  /\ UNCHANGED gfdVars

\* another service of the firmware takes or gives back a slot of the shared
\* counter
OtherAcquire ==
  /\ HTTPrequestFree > 0
  /\ HTTPrequestFree' = HTTPrequestFree - 1
  /\ otherHeld' = otherHeld + 1
  /\ UNCHANGED <<cfgVars, svcVars, serviceBlocks, callTime, envVars, inFlight,
                 lastRevision, histVars>>
  /\ UNCHANGED gfdVars

OtherRelease ==
  /\ otherHeld > 0
  /\ HTTPrequestFree' = HTTPrequestFree + 1
  /\ otherHeld' = otherHeld - 1
  /\ UNCHANGED <<cfgVars, svcVars, serviceBlocks, callTime, envVars, inFlight,
                 lastRevision, histVars>>
  /\ UNCHANGED gfdVars

\* ------------------------------------------------------------------------
\* Specifications
\* ------------------------------------------------------------------------
\* the statics and globals as the program initialises them
\* the statics of getFeedData and the web server before the first request
InitFeedData ==
  /\ feedState = "Initialize"
  /\ startUnixTime = 0
  /\ endUnixTime = 0
  /\ intervalSeconds = 0
  /\ UnixTime = 0
  /\ serverAvailable = TRUE
  /\ feedBlocks = 0
  /\ iterations = 0
  /\ returned0 = {}

InitProgram ==
  /\ pvoutputStarted = FALSE
  /\ pvoutputStop = FALSE
  /\ pvoutputRestart = TRUE
  /\ pvoutputConfigRevision = -1
  /\ pvoutputReportInterval = 5 * 60
  /\ pvoutputSystemId = 0
  /\ state = "initialize"
  /\ oldRecord = NullRecord
  /\ logRecord = NullRecord
  /\ UnixNextPost = now
  /\ reqData = EmptyBuf
  /\ reqEntries = 0
  /\ retryCount = 0
  /\ request = NullRequest
  /\ HTTPrequestFree = HTTPrequestMax
  /\ otherHeld = 0
  /\ serviceBlocks = 0
  /\ callTime = 0
  /\ inFlight = 0
  /\ lastRevision = {}
  /\ sessionInit = FALSE
  /\ sentBody = NoBody
  /\ configResult = TRUE
  /\ InitFeedData

\* a log of consecutive records from key first, one every ClockStep seconds
LogFrom(first, n) ==
  [i \in 1..n |-> [UNIXtime |-> first + (i - 1) * ClockStep, logHours |-> i]]

Init ==
  /\ now = T0
  /\ currLog = LogFrom(T0 - 2 * ClockStep, 2)
  /\ logOpen = FALSE
  /\ InitProgram

Service ==
  \/ ServiceInitialize
  \/ ServiceQueryLastPostTime
  \/ ServiceQueryLastPostTimeWait
  \/ ServicePost
  \/ ServiceSendPost
  \/ ServiceWaitPost

Next ==
  \/ Config
  \/ ServiceInitialize
  \/ ServiceQueryLastPostTime
  \/ ServiceQueryLastPostTimeWait
  \/ ServicePost
  \/ ServiceSendPost
  \/ ServiceWaitPost
  \/ AdvanceClock
  \/ LogOpens
  \/ LogAppend
  \/ RequestCompletes
  \/ OtherAcquire
  \/ OtherRelease

Spec == Init /\ [][Next]_vars

\* Catching up: the device was off line for a long time, the log holds
\* BulkPeriods report periods the remote has not seen, the first
\* configuration is loaded and the log is open.  Time stands still.
InitBulk ==
  /\ now = T0
  /\ currLog = LogFrom(T0 - BulkPeriods * ClockStep, BulkPeriods + 1)
  /\ logOpen = TRUE
  /\ pvoutputStarted = TRUE
  /\ pvoutputStop = FALSE
  /\ pvoutputRestart = TRUE
  /\ pvoutputConfigRevision = 1
  /\ pvoutputReportInterval = 5 * 60
  /\ pvoutputSystemId = 54871
  /\ state = "initialize"
  /\ oldRecord = NullRecord
  /\ logRecord = NullRecord
  /\ UnixNextPost = now
  /\ reqData = EmptyBuf
  /\ reqEntries = 0
  /\ retryCount = 0
  /\ request = NullRequest
  /\ HTTPrequestFree = HTTPrequestMax
  /\ otherHeld = 0
  /\ serviceBlocks = 1
  /\ callTime = 1
  /\ inFlight = 0
  /\ lastRevision = {1}
  /\ sessionInit = FALSE
  /\ sentBody = NoBody
  /\ configResult = TRUE
  /\ InitFeedData

NextBulk ==
  \/ ServiceInitialize
  \/ ServiceQueryLastPostTime
  \/ ServiceQueryLastPostTimeWait
  \/ ServicePost
  \/ ServiceSendPost
  \/ ServiceWaitPost
  \/ RequestCompletes
  \/ OtherAcquire
  \/ OtherRelease

SpecBulk == InitBulk /\ [][NextBulk]_vars

\* A backlog: the device comes back after two weeks.  The log holds records
\* older than MAX_PAST_POST_TIME, with a hole of HoleLen report periods
\* where the device was not running, and the record written when the device
\* came back; the first configuration is loaded and the log is open.  The
\* clock is between two report boundaries and goes on.
HoleLen == 4
BacklogFirst == T0 - MAX_PAST_POST_TIME - 2 * ClockStep
HoleStart == BacklogFirst + 4 * ClockStep
HoleEnd == HoleStart + HoleLen * ClockStep
BacklogLog ==
  [i \in 1..8 |->
     [UNIXtime |-> IF i <= 5 THEN BacklogFirst + (i - 1) * ClockStep
                   ELSE IF i <= 7 THEN HoleEnd + (i - 6) * ClockStep
                   ELSE T0,
      logHours |-> i]]

InitBacklog ==
  /\ now = T0 + ClockStep - 1
  /\ currLog = BacklogLog
  /\ logOpen = TRUE
  /\ pvoutputStarted = TRUE
  /\ pvoutputStop = FALSE
  /\ pvoutputRestart = TRUE
  /\ pvoutputConfigRevision = 1
  /\ pvoutputReportInterval = 5 * 60
  /\ pvoutputSystemId = 54871
  /\ state = "initialize"
  /\ oldRecord = NullRecord
  /\ logRecord = NullRecord
  /\ UnixNextPost = now
  /\ reqData = EmptyBuf
  /\ reqEntries = 0
  /\ retryCount = 0
  /\ request = NullRequest
  /\ HTTPrequestFree = HTTPrequestMax
  /\ otherHeld = 0
  /\ serviceBlocks = 1
  /\ callTime = 1
  /\ inFlight = 0
  /\ lastRevision = {1}
  /\ sessionInit = FALSE
  /\ sentBody = NoBody
  /\ configResult = TRUE
  /\ InitFeedData

NextBacklog ==
  \/ ServiceInitialize
  \/ ServiceQueryLastPostTime
  \/ ServiceQueryLastPostTimeWait
  \/ ServicePost
  \/ ServiceSendPost
  \/ ServiceWaitPost
  \/ RequestCompletes
  \/ AdvanceClock

SpecBacklog == InitBacklog /\ [][NextBacklog]_vars

\* Loading configurations: the documents the configuration service may hand
\* to pvoutputConfig, well formed or not.  A field the document lacks reads
\* as 0 (as<int>() of a missing member).  The service gets as far as the
\* reply to its getstatus query; collecting and posting are left to the
\* other specifications.
AnyIntervals == {0, 100, 300, 450, 600}
AnySystemIds == {0, 54871}
AllConfigs ==
  [revision : Revisions, stop : BOOLEAN, reportInterval : AnyIntervals,
   systemId : AnySystemIds]

ConfigAny == \E config \in AllConfigs : pvoutputConfig(config)

\* the document is not a JSON object: "Json parse failed", return false
ConfigUnparsed ==
  /\ configResult' = FALSE
  /\ UNCHANGED <<cfgVars, svcVars, HTTPrequestFree, otherHeld, serviceBlocks,
                 callTime, envVars, inFlight, lastRevision, sessionInit,
                 sentBody>>
  /\ UNCHANGED gfdVars

NextConfig ==
  \/ ConfigAny
  \/ ConfigUnparsed
  \/ ServiceInitialize
  \/ ServiceQueryLastPostTime
  \/ ServiceQueryLastPostTimeWait
  \/ RequestCompletes
  \/ LogOpens
  \/ AdvanceClock

SpecConfig == Init /\ [][NextConfig]_vars

\* Stopping: configurations are loaded until one of them raises the stop flag
\* (a getstatus reply that does not parse raises it too), none after that.
\* The scheduler calls the service whenever its call time has come, every
\* request in progress completes, time passes and the log opens.
ConfigUntilStop == ~pvoutputStop /\ Config

NextStop ==
  \/ ConfigUntilStop
  \/ ServiceInitialize
  \/ ServiceQueryLastPostTime
  \/ ServiceQueryLastPostTimeWait
  \/ ServicePost
  \/ ServiceSendPost
  \/ ServiceWaitPost
  \/ RequestCompletes
  \/ LogOpens
  \/ AdvanceClock

SpecStop ==
  /\ Init
  /\ [][NextStop]_vars
  /\ WF_vars(Service)
  /\ WF_vars(RequestCompletes)
  /\ WF_vars(LogOpens)
  /\ WF_vars(AdvanceClock)

\* ------------------------------------------------------------------------
\* getFeedData
\* ------------------------------------------------------------------------
\* uint32_t is modelled WordBits wide: 2^WordBits - 1 is a multiple of 5 as
\* 2^32 - 1 is, and more than 2000 intervals of 5 seconds fit below it
WordBits == 16
Modulus == 2^WordBits

\* the largest accepted quotient (end - start) / interval
MaxEntries == 2000

\* the requests after which the web server accepts no further one
MaxFeedRequests == 1

\* the values of the start and end arguments: small ones, the ends of the
\* longest accepted range and of the next longer one, values at the top of
\* the range of uint32_t
FeedTimes ==
  {0, 5, 7, 5 * MaxEntries, 5 * MaxEntries + 5,
   Modulus - 11, Modulus - 6, Modulus - 1}

\* the values of the interval argument
FeedIntervals == {0, 5, 7, 10, Modulus - 1}

\* everything of the uploader, which getFeedData leaves alone but for the
\* shared counter HTTPrequestFree
pvoutputVars ==
  <<cfgVars, svcVars, otherHeld, serviceBlocks, callTime, envVars, inFlight,
    lastRevision, histVars>>

\* what a tick that returns 0 leaves behind: the state, serverAvailable, and
\* the amount by which it changed HTTPrequestFree
HandedBack ==
  [state |-> feedState', serverAvailable |-> serverAvailable',
   HTTPrequestFree |-> HTTPrequestFree' - HTTPrequestFree]

\* the test of Setup that answers 400 "Invalid request"
InvalidRequest(start, end, interval) ==
  \/ start % 5 /= 0
  \/ end % 5 /= 0
  \/ interval % 5 /= 0
  \/ interval <= 0
  \/ end < start
  \/ ((end - start) % Modulus) \div interval > MaxEntries

\* the web server's handler of GET /feed/data: it blocks further calls of
\* server.handleClient() and schedules getFeedData
handleGetFeedData ==
  /\ serverAvailable
  /\ feedBlocks = 0
  /\ HTTPrequestFree < HTTPrequestMax + MaxFeedRequests
  /\ serverAvailable' = FALSE
  /\ feedBlocks' = 1
  /\ UNCHANGED <<feedState, startUnixTime, endUnixTime, intervalSeconds,
                 UnixTime, iterations, returned0, HTTPrequestFree,
                 pvoutputVars>>

\* case Initialize: return 1
GetFeedInitialize ==
  /\ feedBlocks = 1
  /\ feedState = "Initialize"
  /\ feedState' = "Setup"
  /\ UNCHANGED <<startUnixTime, endUnixTime, intervalSeconds, UnixTime,
                 serverAvailable, feedBlocks, iterations, returned0,
                 HTTPrequestFree, pvoutputVars>>

\* case Setup with the arguments start, end and interval of the request: an
\* invalid request is answered 400 and the tick returns 0, a valid one makes
\* the tick return 1 in state process
GetFeedSetup(start, end, interval) ==
  /\ feedBlocks = 1
  /\ feedState = "Setup"
  /\ startUnixTime' = start
  /\ endUnixTime' = end
  /\ intervalSeconds' = interval
  /\ iterations' = 0
  /\ UNCHANGED <<HTTPrequestFree, pvoutputVars>>
  /\ IF InvalidRequest(start, end, interval)
       THEN /\ feedState' = "Setup"
            /\ serverAvailable' = TRUE
            /\ feedBlocks' = 0
            /\ returned0' = returned0 \cup {HandedBack}
            /\ UNCHANGED UnixTime
       ELSE /\ UnixTime' = start
            /\ feedState' = "process"
            /\ UNCHANGED <<serverAvailable, feedBlocks, returned0>>

FeedSetup ==
  \E start \in FeedTimes, end \in FeedTimes, interval \in FeedIntervals :
    GetFeedSetup(start, end, interval)

\* one pass of the loop "while(UnixTime <= endUnixTime)" of case process: the
\* entry for UnixTime is generated and UnixTime += intervalSeconds.  The
\* passes of one tick are steps of their own so that a tick whose loop does
\* not end is a behaviour; they are counted up to one pass past the limit.
GetFeedProcessPass ==
  /\ feedBlocks = 1
  /\ feedState = "process"
  /\ UnixTime <= endUnixTime
  /\ iterations <= MaxEntries + 1
  /\ UnixTime' = (UnixTime + intervalSeconds) % Modulus
  /\ iterations' = iterations + 1
  /\ UNCHANGED <<feedState, startUnixTime, endUnixTime, intervalSeconds,
                 serverAvailable, feedBlocks, returned0, HTTPrequestFree,
                 pvoutputVars>>

\* the loop of case process has ended: the last chunks are sent, the buffers
\* deleted, and the tick returns 0
GetFeedProcessDone ==
  /\ feedBlocks = 1
  /\ feedState = "process"
  /\ UnixTime > endUnixTime
  /\ feedState' = "Setup"
  /\ serverAvailable' = TRUE
  /\ HTTPrequestFree' = HTTPrequestFree + 1
  /\ feedBlocks' = 0
  /\ returned0' = returned0 \cup {HandedBack}
  /\ UNCHANGED <<startUnixTime, endUnixTime, intervalSeconds, UnixTime,
                 iterations, pvoutputVars>>

NextFeed ==
  \/ handleGetFeedData
  \/ GetFeedInitialize
  \/ FeedSetup
  \/ GetFeedProcessPass
  \/ GetFeedProcessDone

SpecFeed == Init /\ [][NextFeed]_vars

\* ------------------------------------------------------------------------
\* Properties
\* ------------------------------------------------------------------------
\* the uploader holds no request object
NoRequest == request = NullRequest

\* C1: whenever the uploader has no request, every slot of the shared
\* counter it took has been given back: the free slots and the slots the
\* other services hold add up to the initial value of HTTPrequestFree
C1_SlotsGivenBack ==
  NoRequest => HTTPrequestFree + otherHeld = HTTPrequestMax

\* C2: at every tick boundary in the states post, sendPost and initialize
\* the uploader has no request, present or in progress
C2_NoRequestOutsideWait ==
  state \in {"post", "sendPost", "initialize"} => (NoRequest /\ inFlight = 0)

\* the post state is reached with buffered entries after a configuration
\* reload restarted the service while a request was in progress (the slot of
\* that request is still taken)
C2_Witness ==
  /\ state = "post"
  /\ reqEntries > 0
  /\ NoRequest
  /\ HTTPrequestFree + otherHeld < HTTPrequestMax

\* C3: the uploader never has more than one HTTP transaction in progress
C3_OneOutstanding == inFlight <= 1

\* a request is in progress that was sent after a restart found the
\* previous request still in progress: two slots are taken, one transaction
\* is in progress
C3_Witness ==
  /\ state = "queryLastPostTimeWait"
  /\ request.readyState = 1
  /\ inFlight = 1
  /\ HTTPrequestFree + otherHeld = HTTPrequestMax - 2

\* C4: cancellation takes effect within one tick: a tick that finds the stop
\* flag raised returns 0, and a tick that finds a restart pending leaves the
\* service in initialize
C4_CancelWithinOneTick ==
  [][Service => /\ (pvoutputStop => callTime' = 0)
                /\ (pvoutputRestart /\ ~pvoutputStop => state' = "initialize")]_vars

\* C5: a configuration reload that carries the revision of the reload before
\* it changes nothing of the uploader
C5_SameRevisionNoOp ==
  [][\A config \in Configs :
       (lastRevision = {config.revision} /\ pvoutputConfig(config))
         => UNCHANGED <<cfgVars, svcVars, serviceBlocks, callTime,
                        HTTPrequestFree, inFlight>>]_vars

\* C6: once the post times are initialised from a getstatus reply, the time
\* of the previous post is before the time of the next post
C6_PrevBeforeNext ==
  oldRecord /= NullRecord => oldRecord.UNIXtime < UnixNextPost

\* entries were collected and an empty period was skipped after them
C6_Witness ==
  /\ state = "post"
  /\ reqEntries >= 1
  /\ logRecord /= NullRecord
  /\ oldRecord /= NullRecord
  /\ UnixNextPost > oldRecord.UNIXtime + pvoutputReportInterval

\* C7: reqEntries is at most 30
C7_EntriesAtMost30 == reqEntries <= MAX_BULK_SEND

\* C8: the length of reqData is at most REQUEST_DATA_LIMIT
C8_DataAtMostLimit == reqData.len <= reqDataLimit

\* C9: reqEntries is 0 exactly when reqData is empty or holds the prefix only
C9_EntriesMatchBuffer ==
  (reqEntries = 0) <=> (reqData = EmptyBuf \/ reqData = PrefixBuf)

\* C10: the entries of reqData are in strictly increasing post time
C10_EntriesIncreasing ==
  \A i \in 1..(Len(reqData.times) - 1) : reqData.times[i] < reqData.times[i + 1]

\* a POST body of two entries or more is about to be sent
C10_Witness ==
  /\ state = "sendPost"
  /\ Len(reqData.times) >= 2

\* C11: within a session (from the first getstatus reply after a (re)start
\* on) the next post time never decreases, also when a failed POST resets
\* the state machine to a new getstatus query; the entries of a later POST
\* are then after those of an earlier one
C11_NextPostNeverDecreases ==
  [][sessionInit => UnixNextPost' >= UnixNextPost]_vars

\* C12: a POST that follows a retryable failure sends the body of the failed
\* attempt: reqData is then what it was when the failed attempt was sent
C12_ResendSameBody ==
  [][(state = "sendPost" /\ state' = "waitPost" /\ sentBody /= NoBody)
       => reqData = sentBody]_vars

\* the responses "rate limit" and "date in the future"
RetryLater(reply) ==
  \/ reply.code = 403 /\ reply.kind = "Exceeded 60 requests per hour"
  \/ reply.code = 400 /\ reply.kind = "Date is in the future"

\* C13: in waitPost every completed response "rate limit" or "date in the
\* future" sets the state back to sendPost and makes the tick return the
\* time one report interval from now
C13_RetryAfterInterval ==
  [][\A reply \in Replies :
       (RetryLater(reply) /\ WaitPostReply(reply))
         => (state' = "sendPost" /\ callTime' = now + pvoutputReportInterval)]_vars

\* a re-send is due one report interval after a failed POST
C13_Witness ==
  /\ state = "sendPost"
  /\ NoRequest
  /\ sentBody /= NoBody
  /\ callTime = now + pvoutputReportInterval

\* C14: retryCount counts the failed POST responses since the last
\* successful POST: every response "rate limit" or "date in the future" adds
\* one to it, a response 200 sets it to 0
C14_RetryCountCounts ==
  [][\A reply \in Replies :
       WaitPostReply(reply)
         => /\ RetryLater(reply) => retryCount' = retryCount + 1
            /\ reply.code = 200 => retryCount' = 0]_vars

C16_StopTickReturnsZero ==
  [][Service =>
       /\ (callTime' = 0) <=>
            (/\ entryState = "post"
             /\ pvoutputStop
             /\ ~(request /= NullRequest /\ request.readyState < 4))
       /\ (callTime' = 0) =>
            (/\ ~pvoutputStarted'
             /\ request' = NullRequest
             /\ reqData' = EmptyBuf
             /\ reqEntries' = 0)]_vars

\* the service was configured and has been stopped
C16_Witness ==
  /\ lastRevision /= {}
  /\ ~pvoutputStarted
  /\ pvoutputConfigRevision = -1
  /\ serviceBlocks = 0
  /\ callTime = 0

\* a document with every field present and in range: a system id, and a
\* report interval that is a multiple of 300 and at least 300
ValidConfig(config) ==
  /\ config.systemId /= 0
  /\ config.reportInterval >= 300
  /\ config.reportInterval % 300 = 0

\* C17: pvoutputConfig called with a document that lacks a field or holds
\* an out-of-range value returns failure, stops the service and does not
\* install the document's values as the running configuration
C17_InvalidConfigRejected ==
  [][\A config \in AllConfigs :
       (~ValidConfig(config) /\ pvoutputConfig(config)) =>
         /\ ~configResult'
         /\ pvoutputStop'
         /\ pvoutputReportInterval' = pvoutputReportInterval
         /\ pvoutputSystemId' = pvoutputSystemId]_vars

\* the report period that starts at or before t is the last one of its
\* local day: the period after it starts at local midnight
LastOfLocalDay(t) ==
  LocalMidnight(t - (t % pvoutputReportInterval) + pvoutputReportInterval)

\* 23:59:59 local of the day t lies in
DayEndSentinel(t) ==
  t - (t % pvoutputReportInterval) + pvoutputReportInterval - 1

\* C18: when the post state has collected the entry of the last report
\* period of a local day (23:55), the next post time is 23:59:59 local of
\* that day and the previous record stays the one of 23:55; the next post
\* time is 00:00:00 of the next day only after the entry of 23:59:59
C18_DayEndBeforeMidnight ==
  [][(/\ ServicePost
      /\ reqEntries' = reqEntries + 1
      /\ LastOfLocalDay(UnixNextPost)
      /\ UnixNextPost /= DayEndSentinel(UnixNextPost)) =>
       (/\ UnixNextPost' = DayEndSentinel(UnixNextPost)
        /\ ~LocalMidnight(UnixNextPost')
        /\ oldRecord'.UNIXtime = UnixNextPost)]_vars

\* the post state is past its stop and buffer-full exits
PostCollates ==
  /\ ServicePost
  /\ ~pvoutputStop
  /\ ~(request /= NullRequest /\ request.readyState < 4
         /\ reqData.len > reqDataLimit)

\* C19: a tick of the post state with UnixNextPost older than
\* now - MAX_PAST_POST_TIME encodes no entry and issues no request but moves
\* UnixNextPost on, so that no entry older than now - MAX_PAST_POST_TIME is
\* ever appended to reqData
C19_StalePeriodSkipped ==
  [][(PostCollates /\ UnixNextPost + MAX_PAST_POST_TIME < now) =>
       (/\ reqData' = reqData
        /\ reqEntries' = reqEntries
        /\ state' /= "sendPost"
        /\ UnixNextPost' > UnixNextPost)]_vars

\* the record read for UnixNextPost has the log hours of the previous record
SameLogHours == logReadKey(UnixNextPost).logHours = oldRecord.logHours

\* C20: when the record at or before UnixNextPost has the log hours of the
\* previous record and UnixNextPost is not local midnight, the post state
\* encodes no entry, leaves reqData, reqEntries and oldRecord as they are and
\* advances UnixNextPost; across the hole in the log no entry is encoded for
\* a period inside the hole, and the entry after the one of the hole's first
\* key is the one of the hole's last key
C20_EmptyPeriodSkipped ==
  [][/\ (PostCollates /\ BufferNotFull /\ SameLogHours
           /\ ~LocalMidnight(UnixNextPost)) =>
          (/\ UNCHANGED <<reqData, reqEntries, oldRecord>>
           /\ UnixNextPost' > UnixNextPost)
     /\ \A i \in DOMAIN reqData'.times :
          /\ ~(HoleStart < reqData'.times[i] /\ reqData'.times[i] < HoleEnd)
          /\ (reqData'.times[i] = HoleStart /\ i < Len(reqData'.times)) =>
                reqData'.times[i + 1] = HoleEnd]_vars

\* the entries on both sides of the hole are in the buffer, one after the
\* other
C20_Witness ==
  \E i \in DOMAIN reqData.times :
    /\ i < Len(reqData.times)
    /\ reqData.times[i] = HoleStart
    /\ reqData.times[i + 1] = HoleEnd

\* the reply of a remote account that has no status yet
NoStatusFound(reply) == reply.code = 400 /\ reply.kind = "No status found"

\* C21: when getstatus answers 400 "No status found", the tick that reads
\* the reply starts the session: the previous post time is about
\* now - MAX_PAST_POST_TIME + 2 * pvoutputReportInterval and the state is
\* post, so the service does not go round the getstatus query again
C21_NoStatusStartsSession ==
  [][\A reply \in Replies :
       (NoStatusFound(reply) /\ QueryLastPostTimeReply(reply)) =>
         /\ state' = "post"
         /\ oldRecord' /= NullRecord
         /\ oldRecord'.UNIXtime >= now - MAX_PAST_POST_TIME
         /\ oldRecord'.UNIXtime <=
              now - MAX_PAST_POST_TIME + 2 * pvoutputReportInterval]_vars

\* the tick has created or sent a request: the request object is a new one,
\* a slot of the shared counter was taken, or a send took the body
RequestIssued ==
  \/ request' /= request
  \/ HTTPrequestFree' < HTTPrequestFree
  \/ inFlight' > inFlight
  \/ sentBody' /= sentBody

\* C22: a tick of queryLastPostTime or sendPost that finds the free heap
\* below 15000 bytes creates and sends no HTTP request
C22_NoRequestOnLowHeap ==
  [][\A wifi \in BOOLEAN, freeHeap \in FreeHeaps, sendOK \in BOOLEAN,
        taken \in BOOLEAN :
       (/\ freeHeap < MinFreeHeap
        /\ \/ QueryLastPostTimeTick(wifi, freeHeap, sendOK)
           \/ SendPostTick(wifi, freeHeap, sendOK, taken)) =>
         ~RequestIssued]_vars

\* the uploader variables a deferred tick must not touch
uploaderVars ==
  <<state, reqData, reqEntries, retryCount, oldRecord, UnixNextPost,
    HTTPrequestFree, request>>

\* C23: a tick of queryLastPostTime or sendPost that finds WiFi
\* disconnected, the free heap below the threshold or no free HTTP slot
\* changes no uploader variable and returns a retry hint other than 0
C23_DeferredTickChangesNothing ==
  [][\A wifi \in BOOLEAN, freeHeap \in FreeHeaps, sendOK \in BOOLEAN,
        taken \in BOOLEAN :
       (/\ ~wifi \/ freeHeap < MinFreeHeap \/ HTTPrequestFree = 0
        /\ \/ QueryLastPostTimeTick(wifi, freeHeap, sendOK)
           \/ SendPostTick(wifi, freeHeap, sendOK, taken)) =>
         (UNCHANGED uploaderVars /\ callTime' /= 0)]_vars

\* the same for the conditions the code of both states tests, and for the
\* heap in sendPost
C23_DeferredWhereTested ==
  [][\A wifi \in BOOLEAN, freeHeap \in FreeHeaps, sendOK \in BOOLEAN,
        taken \in BOOLEAN :
       (\/ (~wifi \/ HTTPrequestFree = 0)
             /\ QueryLastPostTimeTick(wifi, freeHeap, sendOK)
        \/ (~wifi \/ freeHeap < MinFreeHeap \/ HTTPrequestFree = 0)
             /\ SendPostTick(wifi, freeHeap, sendOK, taken)) =>
         (UNCHANGED uploaderVars /\ callTime' /= 0)]_vars

\* C24: when the getstatus reply has HTTP code 200 and its text is not a
\* well-formed "YYYYMMDD,HH:MM," prefix, the tick goes back to the query
\* state to retry after 1 s and the service is neither stopped nor
\* descheduled
C24_ParseFailureRetries ==
  [][\A reply \in Replies :
       (/\ reply.code = 200
        /\ ~ParsedDateTime(reply.kind)
        /\ QueryLastPostTimeReply(reply)) =>
         /\ state' = "queryLastPostTime"
         /\ callTime' \in {1, now + 1}
         /\ pvoutputStop' = pvoutputStop
         /\ serviceBlocks' = serviceBlocks]_vars

\* C25: every tick of the service terminates and returns a timing hint to
\* the scheduler, in every state and for every content of the log
C25_TickReturnsHint ==
  [][Service => state' /= NoReturn]_vars

\* t is on a report boundary
OnReportBoundary(t) == t % pvoutputReportInterval = 0

\* t is 23:59:59 local time
LocalDayEnd(t) == LocalMidnight(t + 1)

\* the post times were initialised from a getstatus reply under the
\* configuration that is still the running one
InSession == sessionInit /\ ~pvoutputRestart /\ ~pvoutputStop

C27_SuccessResetsBuffer ==
  [][\A reply \in Replies :
       (reply.code = 200 /\ WaitPostReply(reply)) =>
         /\ retryCount' = 0
         /\ reqData' = PrefixBuf
         /\ reqEntries' = 0
         /\ HTTPrequestFree' = HTTPrequestFree + 1
         /\ request' = NullRequest
         /\ state' = "post"
         /\ callTime' = 1
         /\ UNCHANGED <<oldRecord, UnixNextPost>>]_vars

\* a POST of collected entries was answered and the post state is entered
\* again with the bare prefix
C27_Witness ==
  /\ state = "post"
  /\ callTime = 1
  /\ ~pvoutputStop
  /\ NoRequest
  /\ sentBody = NoBody
  /\ reqData = PrefixBuf
  /\ reqEntries = 0
  /\ retryCount = 0
  /\ oldRecord.UNIXtime + pvoutputReportInterval = UnixNextPost

\* the replies the remote gives for a status it will never take: the date
\* is older than it accepts, or the status claims power at night
Skippable(reply) ==
  reply.code = 400 /\ reply.kind \in {"Date is older than", "Moon powered"}

\* C28: in waitPost a response that is skippable (400 "Date is older than",
\* 400 "Moon powered") is handled like a success: the buffer is reset to
\* the prefix, retryCount is 0, the state is post, and neither getstatus is
\* queried again nor the batch sent again
C28_SkippableLikeSuccess ==
  [][\A reply \in Replies :
       (Skippable(reply) /\ WaitPostReply(reply)) =>
         /\ retryCount' = 0
         /\ reqData' = PrefixBuf
         /\ reqEntries' = 0
         /\ state' = "post"]_vars

\* the replies no phrase of InterpretAddBatchStatusError matches
Unmapped(reply) ==
  /\ reply.code /= 200
  /\ ~Skippable(reply)
  /\ ~RetryLater(reply)
  /\ ~NoStatusFound(reply)

\* C29: in waitPost a response that matches no known phrase makes the same
\* batch be sent again after the report interval while retries are left, and
\* makes the batch be dropped, with the buffers reset and the state post,
\* when they are used up; the state never becomes queryLastPostTime
C29_UnmappedRetriesOrDrops ==
  [][\A reply \in Replies :
       (Unmapped(reply) /\ WaitPostReply(reply)) =>
         \/ /\ state' = "sendPost"
            /\ callTime' = now + pvoutputReportInterval
            /\ UNCHANGED <<reqData, reqEntries>>
         \/ /\ state' = "post"
            /\ reqData' = PrefixBuf
            /\ reqEntries' = 0]_vars

\* the condition of the claim for going to sendPost, on the values the tick
\* leaves: the HTTP slot is available, and enough entries are collected for
\* a post time that has come, or the entries or the bytes have reached
\* their limit
SlotAndBatchReady ==
  /\ (request' = NullRequest \/ request'.readyState = 4)
  /\ HTTPrequestFree' > 0
  /\ \/ reqEntries' >= pvoutputBulkSend /\ UnixNextPost' >= now
     \/ reqEntries' >= MAX_BULK_SEND
     \/ reqData'.len >= reqDataLimit

\* the tick of the post state finds an empty period and skips it
PostSkips == PostCollates /\ BufferNotFull /\ SameLogHours

\* C30: a tick of the post state changes the state to sendPost exactly when
\* the HTTP slot is available and reqEntries >= pvoutputBulkSend with
\* UnixNextPost >= now, or reqEntries has reached MAX_BULK_SEND, or reqData
\* has reached reqDataLimit; in every other case the state stays post and
\* the tick returns UnixNextPost
C30_SendDecision ==
  [][PostCollates =>
       /\ (state' = "sendPost") <=> SlotAndBatchReady
       /\ (state' /= "sendPost") =>
            (state' = "post" /\ callTime' = UnixNextPost')]_vars

\* the decision of C30 is taken in the ticks that do not skip an empty
\* period; a tick that skips one stays in post and returns the advanced
\* UnixNextPost, whatever is collected
C30_SendDecisionUnlessSkip ==
  [][/\ (PostCollates /\ ~PostSkips) =>
          /\ (state' = "sendPost") <=> SlotAndBatchReady
          /\ (state' /= "sendPost") =>
               (state' = "post" /\ callTime' = UnixNextPost')
     /\ PostSkips =>
          /\ state' = "post"
          /\ UnixNextPost' > UnixNextPost
          /\ callTime' = UnixNextPost']_vars

\* C31: when send() fails in queryLastPostTime or in sendPost, the tick
\* gives back the HTTP slot it has just taken, stays in its state (the wait
\* state is not entered) and returns now + 5
C31_SendFailureReleasesSlot ==
  [][\A freeHeap \in FreeHeaps, taken \in BOOLEAN :
       (/\ HTTPrequestFree > 0
        /\ \/ QueryLastPostTimeTick(TRUE, freeHeap, FALSE)
           \/ ~HeapTooLow(freeHeap) /\ SendPostTick(TRUE, freeHeap, FALSE, taken)) =>
         /\ HTTPrequestFree' = HTTPrequestFree
         /\ state' = state
         /\ callTime' = now + 5]_vars

\* the remote's rate limit
RateLimit(reply) ==
  reply.code = 403 /\ reply.kind = "Exceeded 60 requests per hour"

\* C32: in queryLastPostTimeWait a completed response that is the rate
\* limit makes the tick return now + pvoutputReportInterval before the query
\* is made again; any other error response makes the state queryLastPostTime
\* again after 1 s
C32_RateLimitWaitsInterval ==
  [][\A reply \in Replies :
       (reply.code /= 200 /\ QueryLastPostTimeReply(reply)) =>
         /\ state' = "queryLastPostTime"
         /\ callTime' = IF RateLimit(reply)
                          THEN now + pvoutputReportInterval
                          ELSE now + 1]_vars

\* the documented class of an error response
ErrorClass(reply) ==
  IF reply.code = 400 /\ reply.kind = "Date is older than" THEN "DATE_TOO_OLD"
  ELSE IF reply.code = 400
            /\ reply.kind \in {"Date is in the future", "Invalid future date"}
    THEN "DATE_IN_FUTURE"
  ELSE IF reply.code = 400 /\ reply.kind = "Moon powered" THEN "MOON_POWERED"
  ELSE IF reply.code = 400 /\ reply.kind = "No status found" THEN "NO_STATUS"
  ELSE IF reply.code = 403 /\ reply.kind = "Exceeded 60 requests per hour"
    THEN "RATE_LIMIT"
  ELSE "UNMAPPED_ERROR"

\* the error responses
ErrorReplies == {reply \in Replies : reply.code /= 200}

\* C33: the classification of an error response is the documented table,
\* and each class is told apart from the others in how the state machine
\* reacts: the tick that reads a response in waitPost does to it what it
\* does to the responses of the same class and to no response of another
\* class, and the tick that reads a response in queryLastPostTimeWait
\* treats the responses of one class alike
C33_ClassifiedAsDocumented ==
  [][\A r1, r2 \in ErrorReplies :
       /\ WaitPostReply(r1) =>
            (WaitPostReply(r2) <=> ErrorClass(r1) = ErrorClass(r2))
       /\ (QueryLastPostTimeReply(r1) /\ ErrorClass(r1) = ErrorClass(r2)) =>
            QueryLastPostTimeReply(r2)]_vars

\* the post tick passes the stop check and the early return for a large buffer
\* with a request in progress, and goes on to read oldRecord
PostReadsOldRecord ==
  /\ ~pvoutputStop
  /\ ~(request /= NullRequest /\ request.readyState < 4 /\ reqData.len > reqDataLimit)

\* C34: no tick dereferences a null pointer, whatever configurations are
\* loaded between the ticks: whenever the service is due and its switch takes
\* the case queryLastPostTimeWait there is a request, and whenever it takes
\* the case post and goes on to read oldRecord (it is past the stop check)
\* there is a record, also after a getstatus parse failure entered post
\* without one and after a stop deleted it
C34_NoNullDereference ==
  /\ (Scheduled /\ entryState = "queryLastPostTimeWait") =>
       request /= NullRequest
  /\ (Scheduled /\ entryState = "post" /\ PostReadsOldRecord) =>
       oldRecord /= NullRecord

\* a parse failure entered post without a record, and a new configuration
\* withdrew the stop before the next tick
C34_Witness ==
  /\ serviceBlocks > 0
  /\ state = "post"
  /\ oldRecord = NullRecord
  /\ ~pvoutputStop
  /\ pvoutputRestart

\* no slot of the shared counter is free, no other service holds one, and the
\* uploader waits for no request of its own whose completion would free one
Starved ==
  /\ HTTPrequestFree = 0
  /\ otherHeld = 0
  /\ entryState \notin {"queryLastPostTimeWait", "waitPost"}

\* C35: the uploader cannot starve itself of HTTPrequestFree: whatever
\* revision changes arrive, also while a request is in progress, it never
\* comes to a point where every slot is taken although no other service holds
\* one and it has no request of its own to wait for, so that with the log
\* open, WiFi connected and fair ticks a new getstatus request is eventually
\* issued
C35_NeverStarved == ~Starved

\* once starved the uploader stays starved and sends no request, whatever
\* ticks, configuration loads and completions follow
C35_StarvedForever ==
  [][Starved => (Starved' /\ inFlight' <= inFlight)]_vars

\* the stop flag is raised and the service block is live
StopPending == pvoutputStop /\ serviceBlocks > 0

\* the service waits for a call time that lies beyond the last clock value
WaitsBeyondClock == now = MaxNow /\ callTime > now

\* C36: once the stop flag is raised and no further configuration is loaded,
\* the service eventually stops (a tick returns 0 and the service block is
\* gone), whatever the remote answers; a service still waiting for its call
\* time when the clock has reached its last value is not held against this
C36_StopHappens == StopPending ~> (serviceBlocks = 0 \/ WaitsBeyondClock)

\* the replies that are a 200 or that the getstatus tick hands to its parser
Parsed(reply) ==
  \/ reply.code = 200
  \/ InterpretAddBatchStatusError(reply.code, reply.kind) = "SKIP"

\* the service is live with the stop flag raised and has not reached post
StopUnseen ==
  /\ StopPending
  /\ entryState \in {"initialize", "queryLastPostTime", "queryLastPostTimeWait"}

\* as long as the remote answers the getstatus request with a rate limit, a
\* date in the future or an unmapped error, a service that has not reached
\* post when the stop flag is raised stays live and does not reach post
C36_StubbornRemoteNeverStops ==
  [][(/\ StopUnseen
      /\ ~\E reply \in Replies : Parsed(reply) /\ QueryLastPostTimeReply(reply))
       => StopUnseen']_vars

\* the tick has created a request object, taken a slot of the shared counter
\* or started a transfer
RequestCreatedOrSent ==
  \/ request' /= request /\ request' /= NullRequest
  \/ HTTPrequestFree' < HTTPrequestFree
  \/ inFlight' > inFlight

\* C37: from the load of a configuration with stop = true until the load of a
\* later configuration with stop = false, that is while the stop flag the
\* configuration raised is up, no tick creates or sends an HTTP request,
\* getstatus or addbatchstatus, whether or not the service was started when
\* the stop configuration arrived
C37_NoRequestWhileStopped ==
  [][(pvoutputStop /\ Service) => ~RequestCreatedOrSent]_vars

\* C38: at most one instance of pvoutputService is ever scheduled, and
\* pvoutputStarted is true exactly while a service block exists that has not
\* returned 0, whatever configuration loads, stops, parse failures and ticks
\* have happened
C38_OneServiceInstance ==
  serviceBlocks = IF pvoutputStarted THEN 1 ELSE 0

\* a tick of post has carried out a stop and returned 0
C38_Witness ==
  /\ pvoutputStop
  /\ pvoutputConfigRevision = -1
  /\ ~pvoutputStarted
  /\ serviceBlocks = 0

\* C39: for every request that passes the validation of Setup the loop of
\* case process ends after at most 2001 passes, UnixTime being an unsigned
\* integer whose addition wraps round, also for end values at the top of its
\* range
C39_LoopEndsWithinLimit == iterations <= MaxEntries + 1

\* C40: every path on which getFeedData returns 0, the rejection in Setup and
\* the completion in process, sets serverAvailable, leaves the state at Setup
\* and changes the shared counter HTTPrequestFree by one and the same amount
C40_SameEffectOnReturn0 ==
  /\ \A r \in returned0 : r.serverAvailable /\ r.state = "Setup"
  /\ \A r1, r2 \in returned0 : r1.HTTPrequestFree = r2.HTTPrequestFree
====
